---- MODULE Spec2Model ----
(***************************************************************************)
(* The orchestration and decision engine of the AgroHelpDesk backend:      *)
(* Orchestrator.process drives FieldSense (classifier), FarmOps (context   *)
(* enricher), AgroBrain (knowledge resolver), RunbookMaster (automation    *)
(* policy) and ExplainIt (explainer) for one user message at a time.       *)
(*                                                                         *)
(* Conventions of the model:                                               *)
(*  - a confidence is an integer number of hundredths (0.55 is 55);        *)
(*  - Python's None is None in a string-valued field and Null in an        *)
(*    object-valued field; a dict the code builds is a record;             *)
(*  - a text whose characters the code inspects (a substring test, a       *)
(*    lower()) is looked up in Chars and handled as a tuple of characters; *)
(*  - free text the code only passes along is a short tag.                 *)
(*                                                                         *)
(* Spec follows one call of process without a session id, stage by stage.  *)
(* SessionSpec follows the requests of api/chat.py and api/orchestrator.py *)
(* that share the session store on one event loop, each from one await of  *)
(* a service to the next.                                                  *)
(***************************************************************************)
EXTENDS Integers, Sequences, FiniteSets, TLC

VARIABLES
    pc,               \* where Orchestrator.process stands: the stage it awaits
    message,          \* the message of the turn in progress
    context,          \* the turn's context dict
    agent_responses,  \* the turn's list of AgentResponseSchema
    decisions,        \* the turn's list of FlowDecision
    response,         \* the OrchestratorResponse returned, Null before that
    calls,            \* the collaborators called during the turn, in order
    invocations,      \* the stages whose process() was awaited, in order
    _SESSIONS,        \* services/session_store.py: the in-memory session store
    turns             \* the requests on the event loop, each with its locals

vars == <<pc, message, context, agent_responses, decisions, response, calls,
          invocations, _SESSIONS, turns>>

\* The locals of the one call of process followed stage by stage.
processVars == <<pc, message, context, agent_responses, decisions, response,
                 calls, invocations>>

\* The session store and the requests that use it.
sessionVars == <<_SESSIONS, turns>>

-----------------------------------------------------------------------------
(* Python values *)

None == "None"

Null == [null |-> TRUE]

EmptyDict == [empty |-> TRUE]

\* d.get(k, default) on a dict: the default only when the key is absent.
Get(d, k, default) == IF k \in DOMAIN d THEN d[k] ELSE default

\* Optional[List[str]]: None, or a list.
NoneList == [is_none |-> TRUE, items |-> <<>>]

ListOf(items) == [is_none |-> FALSE, items |-> items]

\* Truth value of an Optional[List]: None and [] are both falsy.
Truthy(opt) == ~opt.is_none /\ Len(opt.items) > 0

-----------------------------------------------------------------------------
(* Text: the characters of every text the code inspects *)

Chars ==
    "cumprimento" :> <<"c", "u", "m", "p", "r", "i", "m", "e", "n", "t", "o">> @@
    "falha_mecanica" :> <<"f", "a", "l", "h", "a", "_", "m", "e", "c", "a", "n", "i", "c", "a">> @@
    "fitossanidade" :> <<"f", "i", "t", "o", "s", "s", "a", "n", "i", "d", "a", "d", "e">> @@
    "estoque_insumos" :> <<"e", "s", "t", "o", "q", "u", "e", "_", "i", "n", "s", "u", "m", "o", "s">> @@
    "meteorologia" :> <<"m", "e", "t", "e", "o", "r", "o", "l", "o", "g", "i", "a">> @@
    "sistema_ti" :> <<"s", "i", "s", "t", "e", "m", "a", "_", "t", "i">> @@
    "rh_rural" :> <<"r", "h", "_", "r", "u", "r", "a", "l">> @@
    "manutencao_preventiva" :> <<"m", "a", "n", "u", "t", "e", "n", "c", "a", "o", "_", "p", "r", "e", "v", "e", "n", "t", "i", "v", "a">> @@
    "operacao_maquina" :> <<"o", "p", "e", "r", "a", "c", "a", "o", "_", "m", "a", "q", "u", "i", "n", "a">> @@
    "duvida_operacional" :> <<"d", "u", "v", "i", "d", "a", "_", "o", "p", "e", "r", "a", "c", "i", "o", "n", "a", "l">> @@
    "outro" :> <<"o", "u", "t", "r", "o">> @@
    "Falha_Eletrica" :> <<"F", "a", "l", "h", "a", "_", "E", "l", "e", "t", "r", "i", "c", "a">> @@
    "falha" :> <<"f", "a", "l", "h", "a">> @@
    "estoque" :> <<"e", "s", "t", "o", "q", "u", "e">> @@
    "erro" :> <<"e", "r", "r", "o">> @@
    "quebrou" :> <<"q", "u", "e", "b", "r", "o", "u">> @@
    "parou" :> <<"p", "a", "r", "o", "u">> @@
    "defeito" :> <<"d", "e", "f", "e", "i", "t", "o">> @@
    "falta" :> <<"f", "a", "l", "t", "a">> @@
    "quantidade" :> <<"q", "u", "a", "n", "t", "i", "d", "a", "d", "e">> @@
    "praga" :> <<"p", "r", "a", "g", "a">> @@
    "doenca" :> <<"d", "o", "e", "n", "c", "a">> @@
    "fungo" :> <<"f", "u", "n", "g", "o">> @@
    "lagarta" :> <<"l", "a", "g", "a", "r", "t", "a">> @@
    "erro 307" :> <<"e", "r", "r", "o", " ", "3", "0", "7">> @@
    "oi" :> <<"o", "i">> @@
    "Trator QUEBROU" :> <<"T", "r", "a", "t", "o", "r", " ", "Q", "U", "E", "B", "R", "O", "U">> @@
    "None" :> <<"N", "o", "n", "e">>

LowerChar ==
    "A" :> "a" @@
    "B" :> "b" @@
    "C" :> "c" @@
    "D" :> "d" @@
    "E" :> "e" @@
    "F" :> "f" @@
    "G" :> "g" @@
    "H" :> "h" @@
    "I" :> "i" @@
    "J" :> "j" @@
    "K" :> "k" @@
    "L" :> "l" @@
    "M" :> "m" @@
    "N" :> "n" @@
    "O" :> "o" @@
    "P" :> "p" @@
    "Q" :> "q" @@
    "R" :> "r" @@
    "S" :> "s" @@
    "T" :> "t" @@
    "U" :> "u" @@
    "V" :> "v" @@
    "W" :> "w" @@
    "X" :> "x" @@
    "Y" :> "y" @@
    "Z" :> "z"

\* str.lower(), character by character.
Lower(t) == [i \in DOMAIN t |-> IF t[i] \in DOMAIN LowerChar THEN LowerChar[t[i]] ELSE t[i]]

\* Python's "sub in t" on strings.
Contains(sub, t) ==
    \/ Len(sub) = 0
    \/ \E i \in 1..(Len(t) - Len(sub) + 1) : SubSeq(t, i, i + Len(sub) - 1) = sub

\* "word in s.lower()" for texts named by their string.
InLower(word, s) == Contains(Chars[word], Lower(Chars[s]))

-----------------------------------------------------------------------------
(* app/schemas/orchestrator_schemas.py *)

FlowState ==
    [INTENTION_CHECK |-> "intention_check",
     NEEDS_CLARIFICATION |-> "needs_clarification",
     GATHERING_CONTEXT |-> "gathering_context",
     KNOWLEDGE_CHECK |-> "knowledge_check",
     HUMAN_ESCALATION |-> "human_escalation",
     AUTOMATION_CHECK |-> "automation_check",
     WORK_ORDER_CREATED |-> "work_order_created",
     RUNBOOK_EXECUTION |-> "runbook_execution",
     EXECUTION_SUCCESS |-> "execution_success",
     EXECUTION_FAILED |-> "execution_failed",
     COMPLETED |-> "completed"]

DecisionType ==
    [INTENTION_CLEAR |-> "intention_clear",
     INTENTION_UNCLEAR |-> "intention_unclear",
     PROCEDURE_KNOWN |-> "procedure_known",
     PROCEDURE_UNKNOWN |-> "procedure_unknown",
     CAN_AUTOMATE |-> "can_automate",
     CANNOT_AUTOMATE |-> "cannot_automate",
     EXECUTION_SUCCESS |-> "execution_success",
     EXECUTION_FAILED |-> "execution_failed"]

FlowDecision(decision_type, agent_name, confidence, next_state) ==
    [decision_type |-> decision_type, agent_name |-> agent_name,
     confidence |-> confidence, next_state |-> next_state]

\* WorkOrder(**d): the required string fields must be strings.
WorkOrderValidates(d) ==
    /\ d.order_id # None
    /\ d.priority # None
    /\ d.category # None
    /\ d.assigned_specialist # None

\* ClarificationRequest(...): suggested_questions is a List[str].
ClarificationValidates(c) ==
    \A i \in DOMAIN c.suggested_questions : c.suggested_questions[i] # None

\* OrchestratorResponse(...): message is a str, work_order an Optional[WorkOrder].
ResponseValidates(r) ==
    /\ r.message # None
    /\ r.work_order # Null => WorkOrderValidates(r.work_order)

-----------------------------------------------------------------------------
(* app/config/agent_config.py *)

Categories ==
    {"cumprimento", "falha_mecanica", "fitossanidade", "estoque_insumos",
     "meteorologia", "sistema_ti", "rh_rural", "manutencao_preventiva",
     "operacao_maquina", "duvida_operacional", "outro"}

CATEGORY_MAPPING ==
    "falha_mecanica" :> "maquinario" @@
    "fitossanidade" :> "praga" @@
    "estoque_insumos" :> "insumos" @@
    "meteorologia" :> "outro" @@
    "sistema_ti" :> "outro" @@
    "rh_rural" :> "outro" @@
    "manutencao_preventiva" :> "maquinario" @@
    "operacao_maquina" :> "maquinario" @@
    "duvida_operacional" :> "outro" @@
    "cumprimento" :> "outro" @@
    "outro" :> "outro"

SPECIALIST_MAPPING ==
    "falha_mecanica" :> "Mecanico de Maquinas Agricolas" @@
    "fitossanidade" :> "Agronomo Especialista" @@
    "sistema_ti" :> "Tecnico de TI" @@
    "manutencao_preventiva" :> "Tecnico de Manutencao" @@
    "outro" :> "Supervisor de Campo"

SEVERITY_PRIORITY_MAPPING ==
    "alta" :> "alta" @@
    "critica" :> "critica" @@
    "media" :> "media" @@
    "baixa" :> "baixa"

RUNBOOK_DEFINITIONS ==
    "reset_sistema" :>
        [name |-> "Reset de Sistema de Maquina", steps |-> 5, difficulty |-> "easy",
         pode_automatizar |-> TRUE, requer_aprovacao |-> FALSE] @@
    "consultar_estoque" :>
        [name |-> "Consulta de Estoque", steps |-> 4, difficulty |-> "easy",
         pode_automatizar |-> TRUE, requer_aprovacao |-> FALSE] @@
    "inspecao_basica" :>
        [name |-> "Inspecao Basica de Maquina", steps |-> 5, difficulty |-> "medium",
         pode_automatizar |-> FALSE, requer_aprovacao |-> TRUE]

get_specialist_for_category(categoria) ==
    IF categoria \in DOMAIN SPECIALIST_MAPPING
    THEN SPECIALIST_MAPPING[categoria] ELSE "Supervisor de Campo"

map_category_to_schema(fieldsense_category) ==
    IF fieldsense_category \in DOMAIN CATEGORY_MAPPING
    THEN CATEGORY_MAPPING[fieldsense_category] ELSE "outro"

get_priority_for_severity(severidade) ==
    IF severidade \in DOMAIN SEVERITY_PRIORITY_MAPPING
    THEN SEVERITY_PRIORITY_MAPPING[severidade] ELSE "medium"

get_runbook_definition(runbook_name) ==
    IF runbook_name \in DOMAIN RUNBOOK_DEFINITIONS
    THEN RUNBOOK_DEFINITIONS[runbook_name] ELSE Null

-----------------------------------------------------------------------------
(* app/core/sk_base_agent.py *)

\* SKBaseAgent.process: the stage's data with success = True, or, when
\* _process_internal raised, success = False with data = {}.
SKBaseAgent_process(agent_name, raised, data) ==
    IF raised
    THEN [agent_name |-> agent_name, success |-> FALSE, data |-> EmptyDict,
          error |-> "exception text"]
    ELSE [agent_name |-> agent_name, success |-> TRUE, data |-> data,
          error |-> None]

-----------------------------------------------------------------------------
(* app/agents/field_sense.py, app/utils/response_builders.py *)

\* 0.55, in hundredths
CONFIDENCE_THRESHOLD == 55

NoEntities == [maquina |-> None, talhao |-> None, local |-> None, sintomas |-> None]

\* Faulty variant of build_fallback_classification: a confidence above the
\* threshold.
build_fallback_classification_confident(msg) ==
    [intencao |-> "fallback classification",
     categoria |-> "outro",
     entidades |-> NoEntities,
     confianca |-> 60,
     severidade |-> "media",
     observacoes |-> "keyword classification",
     perguntas_sugeridas |->
         ListOf(<<"more details?", "which machine or plot?", "since when?">>),
     interpretation_method |-> "fallback"]

build_fallback_classification(msg) ==
    LET message_lower == Lower(Chars[msg])
        any(words) == \E word \in words : Contains(Chars[word], message_lower)
        mechanical == any({"quebrou", "falha", "parou", "defeito", "erro"})
        stock == any({"estoque", "falta", "quantidade"})
        pest == any({"praga", "doenca", "fungo", "lagarta"})
    IN  [intencao |-> "fallback classification",
         categoria |-> IF mechanical THEN "falha_mecanica"
                       ELSE IF stock THEN "estoque_insumos"
                       ELSE IF pest THEN "fitossanidade" ELSE "outro",
         entidades |-> NoEntities,
         confianca |-> 40,
         severidade |-> IF mechanical THEN "alta"
                        ELSE IF stock THEN "media"
                        ELSE IF pest THEN "alta" ELSE "media",
         observacoes |-> "keyword classification",
         perguntas_sugeridas |->
             ListOf(<<"more details?", "which machine or plot?", "since when?">>),
         interpretation_method |-> "fallback"]

\* FieldSense._process_internal. llm is what the reasoning call and the
\* FieldSenseResponse validation gave: a validated dict, a dict that fails
\* validation, or an exception of the call.
FieldSense_process_internal(msg, llm) ==
    IF llm.kind = "valid"
    THEN llm.data @@ [interpretation_method |-> "semantic_kernel"]
    ELSE build_fallback_classification(msg)

-----------------------------------------------------------------------------
(* app/agents/farm_ops.py *)

FarmOps_process_internal(ctx) ==
    LET fieldsense_data == ctx.fieldsense_data
        entidades == Get(fieldsense_data, "entidades", NoEntities)
    IN  [location |-> IF entidades.talhao # None THEN entidades.talhao
                      ELSE IF entidades.local # None THEN entidades.local ELSE None,
         machine_info |-> IF entidades.maquina # None
                          THEN [id |-> entidades.maquina, sintomas |-> entidades.sintomas]
                          ELSE Null]

-----------------------------------------------------------------------------
(* app/agents/agro_brain.py, app/utils/response_builders.py *)

build_insufficient_info_response ==
    [procedimento_conhecido |-> FALSE, nivel_complexidade |-> "alto",
     requer_especialista |-> TRUE, method |-> "insufficient_info"]

build_error_response ==
    [procedimento_conhecido |-> FALSE, nivel_complexidade |-> "alto",
     requer_especialista |-> TRUE, method |-> "error"]

build_fallback_response ==
    [procedimento_conhecido |-> FALSE, nivel_complexidade |-> "alto",
     requer_especialista |-> TRUE, method |-> "fallback"]

\* AgroBrain._process_internal. search is what search_knowledge_base returned:
\* snippets, the "Nenhum resultado" text, or the plugin's fallback knowledge
\* text (no client, or the search raised). llm is as for FieldSense.
AgroBrain_process_internal(search, llm) ==
    IF search = "no_results" THEN build_insufficient_info_response
    ELSE IF llm.kind = "valid" THEN llm.data @@ [method |-> "semantic_kernel_rag"]
    ELSE IF llm.kind = "invalid" THEN build_fallback_response
    ELSE build_error_response

\* The collaborators AgroBrain._process_internal calls, in order.
AgroBrain_calls(search) ==
    IF search = "no_results" THEN <<"retrieval">> ELSE <<"retrieval", "reasoning">>

-----------------------------------------------------------------------------
(* app/plugins/work_order_plugin.py, app/core/automation.py *)

\* WorkOrderPlugin.create_work_order: the id returned for each outcome of the
\* POST to the work-order function.
WorkOrderPlugin_create_work_order(ticket) ==
    IF ticket = "201_with_order_id" THEN "OS-REMOTE"
    ELSE IF ticket = "201_without_order_id" THEN None
    ELSE "OS-LOCAL"

WorkOrderPlugin_build_work_order_dict(category, priority, machine, location, symptoms, assigned_specialist) ==
    [order_id |-> "OS-LOCAL", category |-> category, priority |-> priority,
     status |-> "pending", assigned_specialist |-> assigned_specialist,
     machine_id |-> machine, field_id |-> location, symptoms |-> symptoms]

-----------------------------------------------------------------------------
(* app/agents/runbook_master.py *)

\* Faulty variant of _can_automate: rule 1 (requires specialist) is missing.
_can_automate_without_rule1(categoria, severidade, nivel_complexidade, requer_especialista) ==
    IF nivel_complexidade = "alto" THEN FALSE
    ELSE IF severidade = "alta" /\ InLower("falha", categoria) THEN FALSE
    ELSE IF categoria \in {"estoque_insumos", "duvida_operacional"}
            /\ nivel_complexidade = "baixo" THEN TRUE
    ELSE FALSE

\* Faulty variant of _can_automate: rule 4 does not ask for low complexity.
_can_automate_any_complexity(categoria, severidade, nivel_complexidade, requer_especialista) ==
    IF requer_especialista THEN FALSE
    ELSE IF nivel_complexidade = "alto" THEN FALSE
    ELSE IF severidade = "alta" /\ InLower("falha", categoria) THEN FALSE
    ELSE IF categoria \in {"estoque_insumos", "duvida_operacional"} THEN TRUE
    ELSE FALSE

_can_automate(categoria, severidade, nivel_complexidade, requer_especialista) ==
    IF requer_especialista THEN FALSE
    ELSE IF nivel_complexidade = "alto" THEN FALSE
    ELSE IF severidade = "alta" /\ InLower("falha", categoria) THEN FALSE
    ELSE IF categoria \in {"estoque_insumos", "duvida_operacional"}
            /\ nivel_complexidade = "baixo" THEN TRUE
    ELSE FALSE

\* The runbook _execute_runbook selects.
select_runbook(categoria, fieldsense_data) ==
    IF InLower("estoque", categoria) THEN "consultar_estoque"
    ELSE IF \/ InLower("sistema_ti", categoria)
            \/ InLower("erro", Get(fieldsense_data, "entidades", NoEntities).sintomas)
         THEN "reset_sistema"
    ELSE "inspecao_basica"

\* _execute_runbook. draw is random.random(), in hundredths.
_execute_runbook(categoria, fieldsense_data, draw) ==
    LET runbook == get_runbook_definition(select_runbook(categoria, fieldsense_data))
        success_rate == IF runbook.difficulty = "easy" THEN 90 ELSE 70
        success == draw < success_rate
        steps_completed == IF success THEN runbook.steps ELSE runbook.steps - 1
    IN  IF runbook = Null
        THEN [runbook_name |-> "Desconhecido", steps_completed |-> 0,
              total_steps |-> 0, success |-> FALSE,
              error_message |-> "Runbook nao encontrado"]
        ELSE [runbook_name |-> runbook.name, steps_completed |-> steps_completed,
              total_steps |-> runbook.steps, success |-> success,
              error_message |-> IF success THEN None ELSE "Falha no passo"]

_escalate_to_human(reason) ==
    [decision_type |-> DecisionType.PROCEDURE_UNKNOWN, action |-> "escalate",
     message |-> "escalated: " \o reason, can_automate |-> FALSE,
     work_order |-> Null, runbook_execution |-> Null]

\* _create_work_order. ticket is the outcome of the ticketing call.
_create_work_order(fieldsense_data, agrobrain_data, ticket) ==
    LET entidades == Get(fieldsense_data, "entidades", NoEntities)
        categoria == Get(fieldsense_data, "categoria", "outro")
        severidade == Get(fieldsense_data, "severidade", "media")
        specialist == get_specialist_for_category(categoria)
        priority == get_priority_for_severity(severidade)
        order_id == WorkOrderPlugin_create_work_order(ticket)
        work_order_dict ==
            WorkOrderPlugin_build_work_order_dict(
                categoria, priority, entidades.maquina, entidades.talhao,
                entidades.sintomas, specialist)
    IN  [decision_type |-> DecisionType.CANNOT_AUTOMATE, action |-> "create_os",
         message |-> "work order created", can_automate |-> FALSE,
         work_order |-> [work_order_dict EXCEPT !.order_id = order_id],
         runbook_execution |-> Null]

\* Faulty variant of RunbookMaster._process_internal: a failed run falls
\* through to the work order and keeps the failed RunbookExecution.
RunbookMaster_process_internal_fallthrough(ctx, draw, ticket) ==
    LET fieldsense_data == ctx.fieldsense_data
        agrobrain_data == ctx.agrobrain_data
        categoria == Get(fieldsense_data, "categoria", "")
        severidade == Get(fieldsense_data, "severidade", "media")
        procedimento_conhecido == Get(agrobrain_data, "procedimento_conhecido", FALSE)
        requer_especialista == Get(agrobrain_data, "requer_especialista", TRUE)
        nivel_complexidade == Get(agrobrain_data, "nivel_complexidade", "medio")
        runbook_result == _execute_runbook(categoria, fieldsense_data, draw)
    IN  IF ~procedimento_conhecido
        THEN _escalate_to_human("procedure not found")
        ELSE IF _can_automate(categoria, severidade, nivel_complexidade,
                              requer_especialista)
        THEN IF runbook_result.success
             THEN [decision_type |-> DecisionType.EXECUTION_SUCCESS,
                   action |-> "automate", message |-> "runbook executed",
                   can_automate |-> TRUE, runbook_execution |-> runbook_result,
                   work_order |-> Null]
             ELSE [_create_work_order(fieldsense_data, agrobrain_data, ticket)
                       EXCEPT !.runbook_execution = runbook_result]
        ELSE _create_work_order(fieldsense_data, agrobrain_data, ticket)

\* RunbookMaster._process_internal.
RunbookMaster_process_internal(ctx, draw, ticket) ==
    LET fieldsense_data == ctx.fieldsense_data
        agrobrain_data == ctx.agrobrain_data
        categoria == Get(fieldsense_data, "categoria", "")
        severidade == Get(fieldsense_data, "severidade", "media")
        procedimento_conhecido == Get(agrobrain_data, "procedimento_conhecido", FALSE)
        requer_especialista == Get(agrobrain_data, "requer_especialista", TRUE)
        nivel_complexidade == Get(agrobrain_data, "nivel_complexidade", "medio")
        runbook_result == _execute_runbook(categoria, fieldsense_data, draw)
    IN  IF ~procedimento_conhecido
        THEN _escalate_to_human("procedure not found")
        ELSE IF _can_automate(categoria, severidade, nivel_complexidade,
                              requer_especialista)
        THEN IF runbook_result.success
             THEN [decision_type |-> DecisionType.EXECUTION_SUCCESS,
                   action |-> "automate", message |-> "runbook executed",
                   can_automate |-> TRUE, runbook_execution |-> runbook_result,
                   work_order |-> Null]
             ELSE _escalate_to_human("automatic execution failed")
        ELSE _create_work_order(fieldsense_data, agrobrain_data, ticket)

\* Faulty variant of RunbookMaster_calls: the ticketing call is made a second
\* time.
RunbookMaster_calls_retrying(ctx) ==
    LET fieldsense_data == ctx.fieldsense_data
        agrobrain_data == ctx.agrobrain_data
    IN  IF ~Get(agrobrain_data, "procedimento_conhecido", FALSE) THEN <<>>
        ELSE IF _can_automate(Get(fieldsense_data, "categoria", ""),
                              Get(fieldsense_data, "severidade", "media"),
                              Get(agrobrain_data, "nivel_complexidade", "medio"),
                              Get(agrobrain_data, "requer_especialista", TRUE))
        THEN <<"automation">>
        ELSE <<"ticketing", "ticketing">>

\* The collaborators RunbookMaster._process_internal calls, in order.
RunbookMaster_calls(ctx) ==
    LET fieldsense_data == ctx.fieldsense_data
        agrobrain_data == ctx.agrobrain_data
    IN  IF ~Get(agrobrain_data, "procedimento_conhecido", FALSE) THEN <<>>
        ELSE IF _can_automate(Get(fieldsense_data, "categoria", ""),
                              Get(fieldsense_data, "severidade", "media"),
                              Get(agrobrain_data, "nivel_complexidade", "medio"),
                              Get(agrobrain_data, "requer_especialista", TRUE))
        THEN <<"automation">>
        ELSE <<"ticketing">>

-----------------------------------------------------------------------------
(* app/agents/explain_it.py, app/utils/response_builders.py *)

build_fallback_explanation(work_order, runbook_execution) ==
    [simplified_summary |->
        IF work_order # Null THEN "fallback: work order created"
        ELSE IF runbook_execution # Null /\ runbook_execution.success
        THEN "fallback: procedure executed"
        ELSE "fallback: under analysis"]

\* ExplainIt._process_internal. llm is a validated dict, a dict that fails
\* validation but holds the key simplified_summary (returned as it is), any
\* other dict that fails validation, or an exception of the call.
ExplainIt_process_internal(ctx, llm) ==
    IF llm.kind = "valid" THEN [simplified_summary |-> "llm summary"]
    ELSE IF llm.kind = "unvalidated_summary" THEN [simplified_summary |-> llm.value]
    ELSE build_fallback_explanation(ctx.work_order, ctx.runbook_execution)

-----------------------------------------------------------------------------
(* What the collaborators may answer *)

Messages == {"oi", "Trator QUEBROU"}

\* The webhook passes process whatever JSON value the event carries as its
\* content (api/acs_webhook.py:26-44), so the message need not be a str. A JSON
\* number is written as a tagged string here, as TLC cannot compare a number
\* with a string.
JsonNumber == "<json number 307>"

ProcessArguments == Messages \cup {JsonNumber}

\* Categories the reasoning service may name: categoria is validated as a
\* str only, so a category outside the prompt's list passes.
LLMCategories == Categories \cup {"Falha_Eletrica"}

Severities == {"baixa", "media", "alta", "urgente"}

EntitySamples ==
    {NoEntities,
     [maquina |-> "CH670", talhao |-> "15", local |-> None, sintomas |-> "erro 307"]}

Classification(categoria, confianca, severidade, entidades, observacoes, perguntas) ==
    [intencao |-> "llm intention", categoria |-> categoria, entidades |-> entidades,
     confianca |-> confianca, severidade |-> severidade,
     observacoes |-> observacoes, perguntas_sugeridas |-> perguntas]

\* Validated FieldSenseResponse dicts: greetings (with and without the
\* greeting text in observacoes), unclear intentions (with null, empty and
\* given questions) and clear intentions.
GreetingClassifications ==
    {Classification("cumprimento", c, "baixa", NoEntities, o, NoneList) :
        c \in {30, 100}, o \in {None, "Ola! Como posso ajudar?"}}

UnclearClassifications ==
    {Classification(cat, c, "media", e, None, q) :
        cat \in LLMCategories \ {"cumprimento"}, c \in {0, 54}, e \in EntitySamples,
        q \in {NoneList, ListOf(<<>>), ListOf(<<"which machine?">>)}}

ClearClassifications ==
    {Classification(cat, c, s, e, None, NoneList) :
        cat \in LLMCategories \ {"cumprimento"}, c \in {55, 90}, s \in Severities,
        e \in EntitySamples}

FieldSenseLLMOutcomes ==
    {[kind |-> "valid", data |-> d] :
        d \in GreetingClassifications \cup UnclearClassifications
              \cup ClearClassifications}
    \cup {[kind |-> "invalid"], [kind |-> "error"]}

SearchOutcomes == {"snippets", "no_results", "fallback_knowledge"}

Complexities == {"baixo", "medio", "alto"}

AgroBrainLLMOutcomes ==
    {[kind |-> "valid",
      data |-> [procedimento_conhecido |-> k, nivel_complexidade |-> n,
                requer_especialista |-> r]] :
        k \in BOOLEAN, n \in Complexities, r \in BOOLEAN}
    \cup {[kind |-> "invalid"], [kind |-> "error"]}

\* random.random(), in hundredths, around the two success rates.
Draws == {69, 70, 89, 90}

TicketOutcomes ==
    {"201_with_order_id", "201_without_order_id", "non_201", "timeout",
     "request_error", "other_error"}

ExplainItLLMOutcomes ==
    {[kind |-> "valid"], [kind |-> "unvalidated_summary", value |-> None],
     [kind |-> "invalid"], [kind |-> "error"]}

-----------------------------------------------------------------------------
(* app/core/orchestrator.py *)

EmptyContext ==
    [fieldsense_data |-> Null, farmops_data |-> Null, agrobrain_data |-> Null,
     runbook_data |-> Null, work_order |-> Null, runbook_execution |-> Null]

_identify_missing_info(fieldsense_data) ==
    LET entidades == Get(fieldsense_data, "entidades", NoEntities)
        machine_or_place ==
            IF entidades.maquina = None /\ entidades.local = None
            THEN <<"maquina ou local">> ELSE <<>>
        symptoms ==
            IF entidades.sintomas = None
            THEN <<"sintomas ou descricao do problema">> ELSE <<>>
        missing == machine_or_place \o symptoms
    IN  IF Len(missing) = 0 THEN <<"detalhes adicionais">> ELSE missing

\* Faulty variant of suggested_questions_or_default: only None is replaced,
\* an empty list is passed on.
suggested_questions_or_default_none_only(perguntas_sugeridas) ==
    IF ~perguntas_sugeridas.is_none THEN perguntas_sugeridas.items
    ELSE <<"Pode fornecer mais detalhes?",
           "Em qual maquina ou local isso esta ocorrendo?">>

\* perguntas_sugeridas or [two generic questions] (lines 155-158).
suggested_questions_or_default(perguntas_sugeridas) ==
    IF Truthy(perguntas_sugeridas) THEN perguntas_sugeridas.items
    ELSE <<"Pode fornecer mais detalhes?",
           "Em qual maquina ou local isso esta ocorrendo?">>

\* Faulty variant of procedimento_conhecido_of: the flag is taken as set
\* whenever the knowledge stage answered.
procedimento_conhecido_of_always(agrobrain_data) == agrobrain_data # Null

\* agrobrain_data.get("procedimento_conhecido", False) (line 207).
procedimento_conhecido_of(agrobrain_data) ==
    Get(agrobrain_data, "procedimento_conhecido", FALSE)

\* Faulty variant of _build_error_response: reports the state the flow had
\* reached, not the escalation.
_build_error_response_keeping_state(error_message, ars, decs) ==
    [success |-> FALSE,
     message |-> "(!) " \o error_message
                     \o ". Por favor, tente novamente ou contate o suporte.",
     flow_state |-> IF decs = <<>> THEN FlowState.INTENTION_CHECK
                    ELSE decs[Len(decs)].next_state,
     decisions |-> decs,
     agent_responses |-> ars, work_order |-> Null, clarification |-> Null,
     runbook_execution |-> Null]

\* Faulty variant of _build_error_response: the failed stage's entry is left
\* out of the log.
_build_error_response_dropping_last(error_message, ars, decs) ==
    [success |-> FALSE,
     message |-> "(!) " \o error_message
                     \o ". Por favor, tente novamente ou contate o suporte.",
     flow_state |-> FlowState.HUMAN_ESCALATION, decisions |-> decs,
     agent_responses |-> IF ars = <<>> THEN ars ELSE SubSeq(ars, 1, Len(ars) - 1),
     work_order |-> Null, clarification |-> Null, runbook_execution |-> Null]

_build_error_response(error_message, ars, decs) ==
    [success |-> FALSE,
     message |-> "(!) " \o error_message
                     \o ". Por favor, tente novamente ou contate o suporte.",
     flow_state |-> FlowState.HUMAN_ESCALATION, decisions |-> decs,
     agent_responses |-> ars, work_order |-> Null, clarification |-> Null,
     runbook_execution |-> Null]

OrchestratorResponse(success, msg, flow_state, decs, ars, work_order, clarification, runbook_execution) ==
    [success |-> success, message |-> msg, flow_state |-> flow_state,
     decisions |-> decs, agent_responses |-> ars, work_order |-> work_order,
     clarification |-> clarification, runbook_execution |-> runbook_execution]

\* str(e) of the ValidationError pydantic raises for the model that rejected
\* the candidate's fields (line 366).
str_e(candidate) ==
    IF candidate.clarification # Null
       /\ ~ClarificationValidates(candidate.clarification)
    THEN "1 validation error for ClarificationRequest suggested_questions.0 Input should be a valid string"
    ELSE IF candidate.work_order # Null /\ ~WorkOrderValidates(candidate.work_order)
    THEN "1 validation error for OrchestratorResponse work_order.order_id Input should be a valid string"
    ELSE "1 validation error for OrchestratorResponse message Input should be a valid string"

\* return OrchestratorResponse(...) inside process's try: a ValidationError of
\* the ClarificationRequest or of the OrchestratorResponse is caught by
\* "except Exception", which returns the error response built from the lists
\* as they stand.
ReturnOrCatch(candidate) ==
    IF /\ candidate.clarification # Null =>
              ClarificationValidates(candidate.clarification)
       /\ ResponseValidates(candidate)
    THEN candidate
    ELSE _build_error_response("Erro no processamento: " \o str_e(candidate),
                               candidate.agent_responses, candidate.decisions)

-----------------------------------------------------------------------------
(* app/services/session_store.py, and the requests that use the store.
   The coroutines of the store contain no await, so each runs without
   interruption; a request is interrupted only where it awaits a service. *)

MaxTurns == 3

TurnIds == 1..MaxTurns

\* The uuids start_session can draw. A key absent from the dict is Null.
SessionIds == {"session-a", "session-b"}

\* Truth value of an Optional[dict]: None and {} are both falsy.
DictTruthy(d) == d # Null /\ d # EmptyDict

create_session(store, session_id, thread_id) ==
    [store EXCEPT ![session_id] =
        [thread_id |-> thread_id,
         metadata |-> [created_by |-> "ui", version |-> "0.1.0"],
         messages |-> <<>>]]

get_session(store, session_id) ==
    IF session_id \in DOMAIN store THEN store[session_id] ELSE Null

\* Faulty variant of add_message: the record is put at the head of the log.
add_message_prepending(store, session_id, role, text, extra) ==
    IF get_session(store, session_id) = Null
    THEN store
    ELSE [store EXCEPT ![session_id].messages =
             <<[role |-> role, text |-> text, extra |-> extra]>> \o @]

\* Faulty variant of add_message: the record replaces the log.
add_message_overwriting(store, session_id, role, text, extra) ==
    IF get_session(store, session_id) = Null
    THEN store
    ELSE [store EXCEPT ![session_id].messages =
             <<[role |-> role, text |-> text, extra |-> extra]>>]

add_message(store, session_id, role, text, extra) ==
    IF get_session(store, session_id) = Null
    THEN store
    ELSE [store EXCEPT ![session_id].messages =
             Append(@, [role |-> role, text |-> text, extra |-> extra])]

\* Faulty variant of scan_reversed (below): the log is scanned oldest-first.
RECURSIVE scan_forward(_, _)
scan_forward(messages, i) ==
    LET first == Len(messages) - i + 1
    IN  IF i = 0
        THEN Null
        ELSE IF DictTruthy(Get(messages[first].extra, "fieldsense_data", Null))
             THEN messages[first].extra.fieldsense_data
             ELSE scan_forward(messages, i - 1)

\* Orchestrator.process, lines 68-79: "for msg in reversed(messages)", from
\* record i down to the first, up to the first truthy extra["fieldsense_data"].
RECURSIVE scan_reversed(_, _)
scan_reversed(messages, i) ==
    IF i = 0
    THEN Null
    ELSE IF DictTruthy(Get(messages[i].extra, "fieldsense_data", Null))
         THEN messages[i].extra.fieldsense_data
         ELSE scan_reversed(messages, i - 1)

\* Faulty variant of restore_context: without a session id the call takes the
\* latest classification stored in any session.
restore_context_from_any_session(store, session_id) ==
    LET found == {scan_reversed(store[k].messages, Len(store[k].messages)) :
                     k \in {k \in DOMAIN store : store[k] # Null}} \ {Null}
    IN  IF found = {} THEN Null ELSE CHOOSE fieldsense_data \in found : TRUE

\* What process puts in context["fieldsense_data"] before the classifier runs
\* (lines 68-79): Null stands for the key left unset.
restore_context(store, session_id) ==
    IF session_id = None
    THEN Null
    ELSE LET session == get_session(store, session_id)
         IN  IF session = Null
             THEN Null
             ELSE scan_reversed(session.messages, Len(session.messages))

\* FarmOps._process_internal, lines 45-64: whether the stage put the session's
\* metadata and history in the enriched context.
FarmOps_reads_session(store, session_id) ==
    session_id # None /\ get_session(store, session_id) # Null

\* A request not yet received.
IdleTurn ==
    [kind |-> None, pc |-> "idle", session_id |-> None, message |-> None,
     seed |-> Null, history_seen |-> 0, farmops_session |-> FALSE,
     fieldsense_data |-> Null, flow_state |-> None, replied_at |-> 0]

Init ==
    /\ pc = "idle"
    /\ message = None
    /\ context = EmptyContext
    /\ agent_responses = <<>>
    /\ decisions = <<>>
    /\ response = Null
    /\ calls = <<>>
    /\ invocations = <<>>
    /\ _SESSIONS = [session_id \in SessionIds |-> Null]
    /\ turns = [t \in TurnIds |-> IdleTurn]

\* message[:100] (line 62): defined for a str, a TypeError for a number.
Sliceable(msg) == msg # JsonNumber

\* process(message) is called: the log line slices the message and the locals
\* of the turn are created (lines 60-66), all before the try block opens at
\* line 81, so an exception raised here leaves process ("raised").
Process(msg) ==
    /\ pc = "idle"
    /\ UNCHANGED sessionVars
    /\ pc' = IF Sliceable(msg) THEN "field_sense" ELSE "raised"
    /\ message' = msg
    /\ context' = EmptyContext
    /\ agent_responses' = <<>>
    /\ decisions' = <<>>
    /\ response' = Null
    /\ calls' = <<>>
    /\ invocations' = <<>>

\* STEP 1 and decision point 1 (lines 82-181).
FieldSenseStep(raised, llm) ==
    /\ pc = "field_sense"
    /\ UNCHANGED sessionVars
    /\ invocations' = Append(invocations, "FieldSense")
    /\ LET fieldsense_response ==
               SKBaseAgent_process("FieldSense", raised,
                                   FieldSense_process_internal(message, llm))
           ars == Append(agent_responses, fieldsense_response)
           fieldsense_data == fieldsense_response.data
           confianca == Get(fieldsense_data, "confianca", 0)
           categoria == Get(fieldsense_data, "categoria", "outro")
           perguntas_sugeridas == Get(fieldsense_data, "perguntas_sugeridas", NoneList)
           unclear == FlowDecision(DecisionType.INTENTION_UNCLEAR, "FieldSense",
                                   confianca, FlowState.NEEDS_CLARIFICATION)
           greeting ==
               [reason |-> "Initial greeting",
                missing_info |-> <<"Description of the problem or question">>,
                suggested_questions |->
                    <<Get(fieldsense_data, "observacoes", "Ola! Fico feliz em ajuda-lo!"),
                      "What is your question or need?",
                      "Can you tell me what is happening?">>]
           clarification ==
               [reason |-> "more information needed",
                missing_info |-> _identify_missing_info(fieldsense_data),
                suggested_questions |->
                    suggested_questions_or_default(perguntas_sugeridas)]
       IN  /\ agent_responses' = ars
           /\ calls' = IF raised THEN calls ELSE Append(calls, "reasoning")
           /\ IF ~fieldsense_response.success
              THEN /\ response' = _build_error_response(
                                      "Erro na classificacao da mensagem", ars, decisions)
                   /\ pc' = "done"
                   /\ UNCHANGED <<context, decisions>>
              ELSE IF categoria = "cumprimento"
              THEN /\ decisions' = Append(decisions, unclear)
                   /\ response' = ReturnOrCatch(OrchestratorResponse(
                                      TRUE, "joined questions",
                                      FlowState.NEEDS_CLARIFICATION, decisions', ars,
                                      Null, greeting, Null))
                   /\ context' = [context EXCEPT !.fieldsense_data = fieldsense_data]
                   /\ pc' = "done"
              ELSE IF confianca < CONFIDENCE_THRESHOLD
              THEN /\ decisions' = Append(decisions, unclear)
                   /\ response' = ReturnOrCatch(OrchestratorResponse(
                                      TRUE, "joined questions",
                                      FlowState.NEEDS_CLARIFICATION, decisions', ars,
                                      Null, clarification, Null))
                   /\ context' = [context EXCEPT !.fieldsense_data = fieldsense_data]
                   /\ pc' = "done"
              ELSE /\ decisions' = Append(decisions,
                                       FlowDecision(DecisionType.INTENTION_CLEAR,
                                                    "FieldSense", confianca,
                                                    FlowState.GATHERING_CONTEXT))
                   /\ context' = [context EXCEPT !.fieldsense_data = fieldsense_data]
                   /\ pc' = "farm_ops"
                   /\ UNCHANGED response
    /\ UNCHANGED message

\* Faulty variant of FarmOpsStep: the stage is passed over and AgroBrain runs
\* next.
FarmOpsStep_skipped(raised) ==
    /\ pc = "farm_ops"
    /\ UNCHANGED sessionVars
    /\ pc' = "agro_brain"
    /\ UNCHANGED <<message, context, agent_responses, decisions, response, calls,
                   invocations>>

\* STEP 2 (lines 183-189).
FarmOpsStep(raised) ==
    /\ pc = "farm_ops"
    /\ UNCHANGED sessionVars
    /\ invocations' = Append(invocations, "FarmOps")
    /\ LET farmops_response ==
               SKBaseAgent_process("FarmOps", raised, FarmOps_process_internal(context))
       IN  /\ agent_responses' = Append(agent_responses, farmops_response)
           /\ context' = IF farmops_response.success
                         THEN [context EXCEPT !.farmops_data = farmops_response.data]
                         ELSE context
    /\ pc' = "agro_brain"
    /\ UNCHANGED <<message, decisions, response, calls>>

\* STEP 3 and decision point 2 up to the next stage (lines 191-220, 243-250).
\* AgroBrain._process_internal catches every exception, so the stage never
\* reports failure.
AgroBrainStep(search, llm) ==
    /\ pc = "agro_brain"
    /\ UNCHANGED sessionVars
    /\ invocations' = Append(invocations, "AgroBrain")
    /\ LET agrobrain_response ==
               SKBaseAgent_process("AgroBrain", FALSE,
                                   AgroBrain_process_internal(search, llm))
           ars == Append(agent_responses, agrobrain_response)
           agrobrain_data == agrobrain_response.data
       IN  /\ agent_responses' = ars
           /\ calls' = calls \o AgroBrain_calls(search)
           /\ IF ~agrobrain_response.success
              THEN /\ response' = _build_error_response(
                                      "Erro na busca de conhecimento", ars, decisions)
                   /\ pc' = "done"
                   /\ UNCHANGED <<context, decisions>>
              ELSE /\ context' = [context EXCEPT !.agrobrain_data = agrobrain_data]
                   /\ UNCHANGED response
                   /\ IF ~procedimento_conhecido_of(agrobrain_data)
                      THEN /\ decisions' = Append(decisions,
                                               FlowDecision(DecisionType.PROCEDURE_UNKNOWN,
                                                            "AgroBrain", 0,
                                                            FlowState.HUMAN_ESCALATION))
                           /\ pc' = "explain_escalation"
                      ELSE /\ decisions' = Append(decisions,
                                               FlowDecision(DecisionType.PROCEDURE_KNOWN,
                                                            "AgroBrain", 80,
                                                            FlowState.AUTOMATION_CHECK))
                           /\ pc' = "runbook_master"
    /\ UNCHANGED message

\* The explanation of an escalation and its response (lines 222-241).
ExplainEscalationStep(raised, llm) ==
    /\ pc = "explain_escalation"
    /\ UNCHANGED sessionVars
    /\ invocations' = Append(invocations, "ExplainIt")
    /\ LET explainit_response ==
               SKBaseAgent_process("ExplainIt", raised,
                                   ExplainIt_process_internal(context, llm))
           ars == Append(agent_responses, explainit_response)
           explanation == Get(explainit_response.data, "simplified_summary",
                              "Nao encontramos procedimento especifico.")
       IN  /\ agent_responses' = ars
           /\ calls' = IF raised THEN calls ELSE Append(calls, "reasoning")
           /\ response' = ReturnOrCatch(OrchestratorResponse(
                              TRUE, explanation, FlowState.HUMAN_ESCALATION, decisions,
                              ars, Null, Null, Null))
    /\ pc' = "done"
    /\ UNCHANGED <<message, context, decisions>>

\* Faulty variant of ActionDecisions: a created work order is recorded like an
\* escalation.
ActionDecisions_create_os_as_escalation(action, runbook_execution) ==
    IF action = "automate"
    THEN <<FlowDecision(DecisionType.CAN_AUTOMATE, "RunbookMaster", 90,
                        FlowState.RUNBOOK_EXECUTION),
           IF runbook_execution # Null /\ runbook_execution.success
           THEN FlowDecision(DecisionType.EXECUTION_SUCCESS, "RunbookMaster", 100,
                             FlowState.EXECUTION_SUCCESS)
           ELSE FlowDecision(DecisionType.EXECUTION_FAILED, "RunbookMaster", 50,
                             FlowState.EXECUTION_FAILED)>>
    ELSE <<FlowDecision(DecisionType.CANNOT_AUTOMATE, "RunbookMaster", 70,
                        FlowState.HUMAN_ESCALATION)>>

\* The decision nodes process records for the action RunbookMaster took
\* (lines 273-320).
ActionDecisions(action, runbook_execution) ==
    IF action = "automate"
    THEN <<FlowDecision(DecisionType.CAN_AUTOMATE, "RunbookMaster", 90,
                        FlowState.RUNBOOK_EXECUTION),
           IF runbook_execution # Null /\ runbook_execution.success
           THEN FlowDecision(DecisionType.EXECUTION_SUCCESS, "RunbookMaster", 100,
                             FlowState.EXECUTION_SUCCESS)
           ELSE FlowDecision(DecisionType.EXECUTION_FAILED, "RunbookMaster", 50,
                             FlowState.EXECUTION_FAILED)>>
    ELSE IF action = "create_os"
    THEN <<FlowDecision(DecisionType.CANNOT_AUTOMATE, "RunbookMaster", 80,
                        FlowState.WORK_ORDER_CREATED)>>
    ELSE <<FlowDecision(DecisionType.CANNOT_AUTOMATE, "RunbookMaster", 70,
                        FlowState.HUMAN_ESCALATION)>>

\* STEP 4 (lines 252-326).
RunbookMasterStep(raised, draw, ticket) ==
    /\ pc = "runbook_master"
    /\ UNCHANGED sessionVars
    /\ invocations' = Append(invocations, "RunbookMaster")
    /\ LET runbook_response ==
               SKBaseAgent_process("RunbookMaster", raised,
                                   RunbookMaster_process_internal(context, draw, ticket))
           ars == Append(agent_responses, runbook_response)
           runbook_data == runbook_response.data
           action == Get(runbook_data, "action", None)
           work_order == Get(runbook_data, "work_order", Null)
           runbook_execution == Get(runbook_data, "runbook_execution", Null)
       IN  /\ agent_responses' = ars
           /\ calls' = IF raised THEN calls ELSE calls \o RunbookMaster_calls(context)
           /\ IF ~runbook_response.success
              THEN /\ response' = _build_error_response(
                                      "Erro na decisao de automacao", ars, decisions)
                   /\ pc' = "done"
                   /\ UNCHANGED <<context, decisions>>
              ELSE /\ context' = [context EXCEPT !.runbook_data = runbook_data,
                                                 !.work_order = work_order,
                                                 !.runbook_execution = runbook_execution]
                   /\ decisions' = decisions \o ActionDecisions(action, runbook_execution)
                   /\ pc' = "explain_it"
                   /\ UNCHANGED response
    /\ UNCHANGED message

\* STEP 5 and the completed response (lines 328-361).
ExplainItStep(raised, llm) ==
    /\ pc = "explain_it"
    /\ UNCHANGED sessionVars
    /\ invocations' = Append(invocations, "ExplainIt")
    /\ LET explainit_response ==
               SKBaseAgent_process("ExplainIt", raised,
                                   ExplainIt_process_internal(context, llm))
           ars == Append(agent_responses, explainit_response)
           explanation == Get(explainit_response.data, "simplified_summary",
                              Get(context.runbook_data, "message",
                                  "Sua solicitacao foi processada."))
           final_state == FlowState.COMPLETED
       IN  /\ agent_responses' = ars
           /\ calls' = IF raised THEN calls ELSE Append(calls, "reasoning")
           /\ decisions' = Append(decisions,
                                  FlowDecision(DecisionType.EXECUTION_SUCCESS, "ExplainIt",
                                               100, FlowState.COMPLETED))
           /\ response' = ReturnOrCatch(OrchestratorResponse(
                              TRUE, explanation, final_state, decisions', ars,
                              context.work_order, Null, context.runbook_execution))
    /\ pc' = "done"
    /\ UNCHANGED <<message, context>>

\* process has returned its response to the caller: the turn's locals are gone.
Return ==
    /\ pc \in {"done", "raised"}
    /\ UNCHANGED sessionVars
    /\ pc' = "idle"
    /\ message' = None
    /\ context' = EmptyContext
    /\ agent_responses' = <<>>
    /\ decisions' = <<>>
    /\ response' = Null
    /\ calls' = <<>>
    /\ invocations' = <<>>

\* A stage that raises does so whatever its collaborators answered, so one
\* answer stands for all of them there.
Next ==
    \/ \E msg \in ProcessArguments : Process(msg)
    \/ \E llm \in FieldSenseLLMOutcomes : FieldSenseStep(FALSE, llm)
    \/ FieldSenseStep(TRUE, [kind |-> "error"])
    \/ \E raised \in BOOLEAN : FarmOpsStep(raised)
    \/ \E search \in SearchOutcomes, llm \in AgroBrainLLMOutcomes :
           AgroBrainStep(search, llm)
    \/ \E llm \in ExplainItLLMOutcomes : ExplainEscalationStep(FALSE, llm)
    \/ ExplainEscalationStep(TRUE, [kind |-> "error"])
    \/ \E draw \in Draws, ticket \in TicketOutcomes :
           RunbookMasterStep(FALSE, draw, ticket)
    \/ RunbookMasterStep(TRUE, 90, "other_error")
    \/ \E llm \in ExplainItLLMOutcomes : ExplainItStep(FALSE, llm)
    \/ ExplainItStep(TRUE, [kind |-> "error"])
    \/ Return

Spec == Init /\ [][Next]_vars

-----------------------------------------------------------------------------
(* Requests on one event loop: api/chat.py, api/orchestrator.py and the
   session store. Each action runs a request from one await of a service to
   the next. *)

\* The classifier answers drawn for the requests.
SessionClassifierOutcomes ==
    {llm \in FieldSenseLLMOutcomes :
        /\ llm.kind # "invalid"
        /\ llm.kind = "valid" =>
               /\ llm.data.categoria \in {"cumprimento", "falha_mecanica"}
               /\ llm.data.confianca \in {90, 100}
               /\ llm.data.entidades = NoEntities
               /\ llm.data.observacoes # None
                      \/ llm.data.categoria # "cumprimento"
               /\ llm.data.categoria # "cumprimento" =>
                      llm.data.severidade = "media"}

\* The message of every request.
SessionMessages == {"Trator QUEBROU"}

\* The session ids given to POST /process.
ProcessSessionIds == {None, "session-a"}

\* The flow states process can return after the classifier stage.
PipelineFlowStates == {FlowState.COMPLETED, FlowState.HUMAN_ESCALATION}

\* Requests are numbered in the order they arrive.
Arrives(t) ==
    /\ turns[t].pc = "idle"
    /\ \A u \in TurnIds : u < t => turns[u].pc # "idle"

\* Orchestrator.process, lines 60-79: the locals are created and the context
\* of the session, if any, is restored; the classifier is awaited next.
BeginProcess(turn, store) ==
    LET session == get_session(store, turn.session_id)
    IN  [turn EXCEPT
            !.pc = "field_sense",
            !.seed = restore_context(store, turn.session_id),
            !.history_seen = IF turn.session_id = None \/ session = Null
                             THEN 0 ELSE Len(session.messages)]

\* The flow state of the response process returns from the classifier stage
\* (lines 82-181), None when the turn goes on to FarmOps.
FlowStateAfterClassifier(fieldsense_response) ==
    LET fieldsense_data == fieldsense_response.data
        greeting ==
            [reason |-> "Initial greeting",
             missing_info |-> <<"Description of the problem or question">>,
             suggested_questions |->
                 <<Get(fieldsense_data, "observacoes", "Ola! Fico feliz em ajuda-lo!"),
                   "What is your question or need?",
                   "Can you tell me what is happening?">>]
        clarification ==
            [reason |-> "more information needed",
             missing_info |-> _identify_missing_info(fieldsense_data),
             suggested_questions |->
                 suggested_questions_or_default(
                     Get(fieldsense_data, "perguntas_sugeridas", NoneList))]
        asked(request) ==
            ReturnOrCatch(OrchestratorResponse(
                TRUE, "joined questions", FlowState.NEEDS_CLARIFICATION, <<>>,
                <<fieldsense_response>>, Null, request, Null)).flow_state
    IN  IF ~fieldsense_response.success
        THEN _build_error_response("Erro na classificacao da mensagem",
                                   <<fieldsense_response>>, <<>>).flow_state
        ELSE IF Get(fieldsense_data, "categoria", "outro") = "cumprimento"
        THEN asked(greeting)
        ELSE IF Get(fieldsense_data, "confianca", 0) < CONFIDENCE_THRESHOLD
        THEN asked(clarification)
        ELSE None

\* send_message, lines 166-172: the data of the first successful FieldSense
\* response of the result, else None.
fieldsense_data_of(fieldsense_response) ==
    IF fieldsense_response.agent_name = "FieldSense" /\ fieldsense_response.success
    THEN fieldsense_response.data
    ELSE Null

\* process returns its result to the caller. send_message (lines 137-185)
\* stores the bot reply with the result's flow_state and classification; the
\* other keys of extra copy fields of the result and are never read back.
Returns(t, turn) ==
    IF turn.kind = "send_message"
    THEN /\ _SESSIONS' =
                add_message(_SESSIONS, turn.session_id, "bot", "reply text",
                            [flow_state |-> turn.flow_state,
                             needs_clarification |->
                                 turn.flow_state = FlowState.NEEDS_CLARIFICATION,
                             fieldsense_data |-> turn.fieldsense_data])
         /\ turns' = [turns EXCEPT ![t] =
                         [turn EXCEPT
                             !.pc = "done",
                             !.replied_at =
                                 Len(_SESSIONS'[turn.session_id].messages)]]
    ELSE /\ turns' = [turns EXCEPT ![t] = [turn EXCEPT !.pc = "returned"]]
         /\ UNCHANGED _SESSIONS

\* start_session: a thread is created and a session stored under a new uuid.
StartSession(session_id) ==
    /\ _SESSIONS[session_id] = Null
    /\ _SESSIONS' = create_session(_SESSIONS, session_id, "thread id")
    /\ UNCHANGED <<turns, processVars>>

\* send_message up to its first await (lines 111-132): 404 for an unknown
\* session, else the user message is stored and the ACS send is awaited.
SendMessage(t, session_id, msg) ==
    /\ Arrives(t)
    /\ LET turn == [turns[t] EXCEPT !.kind = "send_message",
                                     !.session_id = session_id,
                                     !.message = msg]
       IN  IF get_session(_SESSIONS, session_id) = Null
           THEN /\ turns' = [turns EXCEPT ![t] = [turn EXCEPT !.pc = "http_404"]]
                /\ UNCHANGED _SESSIONS
           ELSE /\ _SESSIONS' = add_message(_SESSIONS, session_id, "user", msg,
                                            [user_id |-> None])
                /\ turns' = [turns EXCEPT ![t] = [turn EXCEPT !.pc = "acs_send"]]
    /\ UNCHANGED processVars

\* send_message_to_thread returns, and process begins, or raises, and the
\* request ends with HTTP 500 (lines 128-135, 202-207).
AcsSend(t, sent) ==
    /\ turns[t].pc = "acs_send"
    /\ turns' = [turns EXCEPT ![t] =
                    IF sent THEN BeginProcess(@, _SESSIONS)
                    ELSE [@ EXCEPT !.pc = "http_500"]]
    /\ UNCHANGED <<_SESSIONS, processVars>>

\* POST /process: process is called with the payload's optional session id.
ProcessCall(t, session_id, msg) ==
    /\ Arrives(t)
    /\ turns' = [turns EXCEPT ![t] =
                    BeginProcess([@ EXCEPT !.kind = "process",
                                           !.session_id = session_id,
                                           !.message = msg],
                                 _SESSIONS)]
    /\ UNCHANGED <<_SESSIONS, processVars>>

\* The classifier answers: process returns from the classifier stage, or runs
\* FarmOps, which reads the session, and awaits the knowledge search.
ClassifierReturns(t, raised, llm) ==
    /\ turns[t].pc = "field_sense"
    /\ LET fieldsense_response ==
               SKBaseAgent_process("FieldSense", raised,
                                   FieldSense_process_internal(turns[t].message, llm))
           flow_state == FlowStateAfterClassifier(fieldsense_response)
           turn == [turns[t] EXCEPT
                       !.fieldsense_data = fieldsense_data_of(fieldsense_response),
                       !.flow_state = flow_state]
       IN  IF flow_state # None
           THEN Returns(t, turn)
           ELSE /\ turns' = [turns EXCEPT ![t] =
                                [turn EXCEPT
                                    !.pc = "pipeline",
                                    !.farmops_session =
                                        FarmOps_reads_session(_SESSIONS,
                                                              turn.session_id)]]
                /\ UNCHANGED _SESSIONS
    /\ UNCHANGED processVars

\* The stages after FarmOps end and process returns.
PipelineReturns(t, flow_state) ==
    /\ turns[t].pc = "pipeline"
    /\ Returns(t, [turns[t] EXCEPT !.flow_state = flow_state])
    /\ UNCHANGED processVars

SessionNext ==
    \/ \E session_id \in SessionIds : StartSession(session_id)
    \/ \E t \in TurnIds, session_id \in SessionIds, msg \in SessionMessages :
           SendMessage(t, session_id, msg)
    \/ \E t \in TurnIds, sent \in BOOLEAN : AcsSend(t, sent)
    \/ \E t \in TurnIds, session_id \in ProcessSessionIds, msg \in SessionMessages :
           ProcessCall(t, session_id, msg)
    \/ \E t \in TurnIds, llm \in SessionClassifierOutcomes :
           ClassifierReturns(t, FALSE, llm)
    \/ \E t \in TurnIds : ClassifierReturns(t, TRUE, [kind |-> "error"])
    \/ \E t \in TurnIds, flow_state \in PipelineFlowStates :
           PipelineReturns(t, flow_state)

SessionSpec == Init /\ [][SessionNext]_vars

-----------------------------------------------------------------------------
(* Vocabulary of the properties *)

Called(collaborator) == \E i \in DOMAIN calls : calls[i] = collaborator

Invoked(agent_name) ==
    \E i \in DOMAIN agent_responses : agent_responses[i].agent_name = agent_name

Classified == context.fieldsense_data # Null

Resolved == context.agrobrain_data # Null

Decided == context.runbook_data # Null

Returned == response # Null

\* A clear intention: not a greeting, and a confidence at or above the threshold.
ClearIntention ==
    /\ Classified
    /\ context.fieldsense_data.categoria # "cumprimento"
    /\ context.fieldsense_data.confianca >= CONFIDENCE_THRESHOLD

LastNextState(decs) == decs[Len(decs)].next_state

-----------------------------------------------------------------------------
(* Properties *)

\* C1: whatever the category, severity and complexity, _can_automate is false
\* when requires_specialist is true; and in every turn whose knowledge result
\* has requer_especialista = true, RunbookMaster's result has can_automate =
\* false and no runbook execution, no runbook is triggered, and the response
\* carries no runbook execution.
C1_SpecialistNeverAutomates ==
    /\ \A cat \in LLMCategories, sev \in Severities, cx \in Complexities :
           ~_can_automate(cat, sev, cx, TRUE)
    /\ (Resolved /\ context.agrobrain_data.requer_especialista) =>
           /\ ~Called("automation")
           /\ Decided => /\ ~context.runbook_data.can_automate
                         /\ context.runbook_data.runbook_execution = Null
           /\ Returned => response.runbook_execution = Null

\* C1 witness: a stock request of low complexity with a known procedure, which
\* would be automated, went to a work order because a specialist is required.
C1_Witness ==
    /\ pc = "done"
    /\ Decided
    /\ context.fieldsense_data.categoria = "estoque_insumos"
    /\ context.agrobrain_data.procedimento_conhecido
    /\ context.agrobrain_data.nivel_complexidade = "baixo"
    /\ context.agrobrain_data.requer_especialista
    /\ context.runbook_data.action = "create_os"

\* C2: in every turn whose knowledge result has procedimento_conhecido = false,
\* whatever its requer_especialista and nivel_complexidade, RunbookMaster is
\* not invoked, neither the ticketing service nor a runbook is called, and the
\* response returned has flow_state = human_escalation with no work order and
\* no runbook execution.
C2_UnknownProcedureEscalates ==
    (Resolved /\ ~context.agrobrain_data.procedimento_conhecido) =>
        /\ ~Invoked("RunbookMaster")
        /\ ~Called("ticketing")
        /\ ~Called("automation")
        /\ pc \in {"explain_escalation", "done"}
        /\ Returned => /\ response.flow_state = FlowState.HUMAN_ESCALATION
                       /\ response.work_order = Null
                       /\ response.runbook_execution = Null

\* C2 witness: a turn returned after the knowledge stage reported an unknown
\* procedure of low complexity that needs no specialist.
C2_Witness ==
    /\ pc = "done"
    /\ Resolved
    /\ ~context.agrobrain_data.procedimento_conhecido
    /\ ~context.agrobrain_data.requer_especialista
    /\ context.agrobrain_data.nivel_complexidade = "baixo"
    /\ response.success
    /\ response.flow_state = FlowState.HUMAN_ESCALATION

\* C3: no result of RunbookMaster and no response has both a work order and a
\* runbook execution, and no turn calls both the ticketing service and a
\* runbook, a failed run included.
C3_WorkOrderXorRunbook ==
    /\ Decided => ~(/\ context.runbook_data.work_order # Null
                    /\ context.runbook_data.runbook_execution # Null)
    /\ Returned => ~(/\ response.work_order # Null
                     /\ response.runbook_execution # Null)
    /\ ~(Called("ticketing") /\ Called("automation"))

\* C3 witness: the runbook was triggered and its run failed; the turn returned.
C3_Witness ==
    /\ pc = "done"
    /\ Decided
    /\ Called("automation")
    /\ context.runbook_data.action = "escalate"
    /\ response.success

\* C4: once the classifier has given a category other than greeting with a
\* confidence below the threshold, the turn has returned: flow_state is
\* needs_clarification, the clarification has at least one suggested question,
\* and the classifier is the only stage invoked and the only collaborator called.
C4_LowConfidenceClarifies ==
    (/\ Classified
     /\ context.fieldsense_data.categoria # "cumprimento"
     /\ context.fieldsense_data.confianca < CONFIDENCE_THRESHOLD) =>
        /\ pc = "done"
        /\ response.flow_state = FlowState.NEEDS_CLARIFICATION
        /\ response.clarification # Null
        /\ Len(response.clarification.suggested_questions) > 0
        /\ Len(agent_responses) = 1
        /\ agent_responses[1].agent_name = "FieldSense"
        /\ calls = <<"reasoning">>

\* C4 witness: a validated classification just below the threshold whose
\* suggested questions are an empty list was answered with a clarification.
C4_Witness ==
    /\ pc = "done"
    /\ Classified
    /\ context.fieldsense_data.categoria = "falha_mecanica"
    /\ context.fieldsense_data.confianca = 54
    /\ context.fieldsense_data.perguntas_sugeridas = ListOf(<<>>)
    /\ response.flow_state = FlowState.NEEDS_CLARIFICATION

\* C5: once the classifier has given the category greeting, whatever the
\* confidence and whether or not observacoes holds a greeting text, the turn
\* has returned with success = true and flow_state = needs_clarification, its
\* clarification holds three questions of which the last two are the fixed
\* prompts, and the classifier is the only stage invoked.
C5_GreetingClarifies ==
    (Classified /\ context.fieldsense_data.categoria = "cumprimento") =>
        /\ pc = "done"
        /\ response.success
        /\ response.flow_state = FlowState.NEEDS_CLARIFICATION
        /\ response.clarification # Null
        /\ Len(response.clarification.suggested_questions) = 3
        /\ response.clarification.suggested_questions[2] = "What is your question or need?"
        /\ response.clarification.suggested_questions[3] = "Can you tell me what is happening?"
        /\ Len(agent_responses) = 1
        /\ calls = <<"reasoning">>

\* C6: whenever RunbookMaster has decided on a stock request (estoque_insumos)
\* of low complexity with a known procedure and no specialist required, its
\* result has can_automate = true, a runbook execution and no work order,
\* whether the simulated run succeeded or failed.
C6_StockLowComplexityAutomates ==
    (/\ Decided
     /\ context.fieldsense_data.categoria = "estoque_insumos"
     /\ context.agrobrain_data.procedimento_conhecido
     /\ context.agrobrain_data.nivel_complexidade = "baixo"
     /\ ~context.agrobrain_data.requer_especialista) =>
        /\ context.runbook_data.can_automate
        /\ context.runbook_data.runbook_execution # Null
        /\ context.runbook_data.work_order = Null

\* The decision matrix in closed form: automation needs no specialist, low
\* complexity, one of the two simple categories, and no high-severity failure.
AutomationPermitted(categoria, severidade, nivel_complexidade, requer_especialista) ==
    /\ ~requer_especialista
    /\ nivel_complexidade = "baixo"
    /\ categoria \in {"estoque_insumos", "duvida_operacional"}
    /\ ~(severidade = "alta" /\ InLower("falha", categoria))

\* C7: for every category, severity, complexity and requires_specialist,
\* _can_automate equals the closed form of rules 1-5, and is false for a high
\* severity with a category containing "falha"; and in every turn RunbookMaster
\* decided, a runbook was triggered exactly when the closed form permits it.
C7_DecisionMatrix ==
    /\ \A cat \in LLMCategories, sev \in Severities, cx \in Complexities,
          req \in BOOLEAN :
           /\ _can_automate(cat, sev, cx, req) = AutomationPermitted(cat, sev, cx, req)
           /\ (sev = "alta" /\ InLower("falha", cat)) => ~_can_automate(cat, sev, cx, req)
    /\ Decided =>
           (Called("automation") <=>
                AutomationPermitted(context.fieldsense_data.categoria,
                                    context.fieldsense_data.severidade,
                                    context.agrobrain_data.nivel_complexidade,
                                    context.agrobrain_data.requer_especialista))

\* C7 witness: a high-severity failure of low complexity that needs no
\* specialist was decided on, and went to a work order.
C7_Witness ==
    /\ pc = "done"
    /\ Decided
    /\ context.fieldsense_data.categoria = "Falha_Eletrica"
    /\ context.fieldsense_data.severidade = "alta"
    /\ context.agrobrain_data.nivel_complexidade = "baixo"
    /\ ~context.agrobrain_data.requer_especialista
    /\ context.runbook_data.action = "create_os"

\* C8: every response returned has a non-empty decisions list and a flow_state
\* equal to the next_state of the last decision.
C8_FlowStateIsLastDecision ==
    Returned =>
        /\ Len(response.decisions) > 0
        /\ response.flow_state = LastNextState(response.decisions)

\* The premise of C9: a clear intention, a known procedure, a specialist required.
SpecialistRequiredTurn ==
    /\ ClearIntention
    /\ Resolved
    /\ context.agrobrain_data.procedimento_conhecido
    /\ context.agrobrain_data.requer_especialista

HasNextState(decs, state) == \E i \in DOMAIN decs : decs[i].next_state = state

\* C9 as stated: a turn with a clear intention, a known procedure and a
\* specialist required returns flow_state = work_order_created with a work order.
C9_ReturnsWorkOrderCreated ==
    (pc = "done" /\ SpecialistRequiredTurn) =>
        /\ response.flow_state = FlowState.WORK_ORDER_CREATED
        /\ response.work_order # Null

\* C9 amended: in such a turn RunbookMaster, once it has decided, has called the
\* ticketing service and created a work order, and a decision with next_state
\* work_order_created is recorded; the response never has flow_state
\* work_order_created: with success = true it is completed and carries the
\* work order, otherwise it is the error response (human_escalation, no work
\* order).
C9_WorkOrderThenCompleted ==
    SpecialistRequiredTurn =>
        /\ Decided => /\ context.runbook_data.action = "create_os"
                      /\ context.runbook_data.work_order # Null
                      /\ Called("ticketing")
                      /\ HasNextState(decisions, FlowState.WORK_ORDER_CREATED)
        /\ Returned =>
               /\ response.flow_state # FlowState.WORK_ORDER_CREATED
               /\ IF response.success
                  THEN /\ response.flow_state = FlowState.COMPLETED
                       /\ response.work_order # Null
                       /\ HasNextState(response.decisions, FlowState.WORK_ORDER_CREATED)
                  ELSE /\ response.flow_state = FlowState.HUMAN_ESCALATION
                       /\ response.work_order = Null

\* C9 witness: such a turn returned with success and a work order.
C9_Witness ==
    /\ pc = "done"
    /\ SpecialistRequiredTurn
    /\ response.success
    /\ response.flow_state = FlowState.COMPLETED
    /\ response.work_order # Null
    /\ response.work_order.order_id = "OS-REMOTE"

\* C10: every turn whose RunbookMaster stage succeeded returns flow_state =
\* completed and a decisions list ending in a node with next_state completed,
\* whatever the explainer did and whatever action was chosen.
C10_PolicySuccessCompletes ==
    (pc = "done" /\ Decided) =>
        /\ response.flow_state = FlowState.COMPLETED
        /\ LastNextState(response.decisions) = FlowState.COMPLETED

\* process left by an exception instead of a returned response.
Propagated == pc = "raised"

\* C11: process never propagates an exception to its caller, and every
\* response with success = false has flow_state = human_escalation.
C11_NeverPropagates ==
    /\ ~Propagated
    /\ (Returned /\ ~response.success) =>
           response.flow_state = FlowState.HUMAN_ESCALATION

\* The messages process passes to _build_error_response as literals (lines 89,
\* 198, 259).
StageErrorMessages ==
    {"Erro na classificacao da mensagem", "Erro na busca de conhecimento",
     "Erro na decisao de automacao"}

\* C12: the message of every error response is one of the fixed user-facing
\* messages, and so holds no text of the exception that caused it.
C12_UserSafeErrorMessage ==
    (Returned /\ ~response.success) =>
        \E m \in StageErrorMessages :
            response.message = _build_error_response(m, <<>>, <<>>).message

\* The stages whose failure process tests for (lines 87, 196, 257).
HaltingStages == {"FieldSense", "AgroBrain", "RunbookMaster"}

\* C13: whenever the log holds a failed entry of FieldSense, AgroBrain or
\* RunbookMaster, that entry is the last one (no later stage was invoked) and
\* process has returned success = false, flow_state = human_escalation, no
\* work order and no runbook execution.
C13_FailedStageHalts ==
    \A i \in DOMAIN agent_responses :
        (agent_responses[i].agent_name \in HaltingStages
         /\ ~agent_responses[i].success) =>
            /\ i = Len(agent_responses)
            /\ pc = "done"
            /\ ~response.success
            /\ response.flow_state = FlowState.HUMAN_ESCALATION
            /\ response.work_order = Null
            /\ response.runbook_execution = Null
            /\ response.agent_responses = agent_responses

\* C13 witness: RunbookMaster failed after three stages succeeded, and the turn
\* returned the error response.
C13_Witness ==
    /\ pc = "done"
    /\ Len(agent_responses) = 4
    /\ agent_responses[4].agent_name = "RunbookMaster"
    /\ ~agent_responses[4].success
    /\ ~response.success
    /\ response.flow_state = FlowState.HUMAN_ESCALATION

\* The classification came from the keyword fallback.
FellBack ==
    /\ Classified
    /\ context.fieldsense_data.interpretation_method = "fallback"

\* C14: for every message, when the reasoning call raises or its output fails
\* validation FieldSense._process_internal returns the keyword fallback, whose
\* confidence is 0.4, whose category is not the greeting and whose questions
\* are not empty; and every turn classified by the fallback has returned
\* success = true, needs_clarification, with the fallback's questions, FieldSense
\* being the only stage invoked and reasoning the only collaborator called.
C14_FallbackClarifies ==
    /\ \A msg \in Messages, llm \in {[kind |-> "invalid"], [kind |-> "error"]} :
           LET result == FieldSense_process_internal(msg, llm)
           IN  /\ result.interpretation_method = "fallback"
               /\ result.confianca = 40
               /\ result.confianca < CONFIDENCE_THRESHOLD
               /\ result.categoria # "cumprimento"
               /\ Truthy(result.perguntas_sugeridas)
    /\ FellBack =>
           /\ pc = "done"
           /\ agent_responses[1].success
           /\ response.success
           /\ response.flow_state = FlowState.NEEDS_CLARIFICATION
           /\ response.clarification # Null
           /\ response.clarification.suggested_questions =
                  context.fieldsense_data.perguntas_sugeridas.items
           /\ Len(response.clarification.suggested_questions) = 3
           /\ Len(agent_responses) = 1
           /\ calls = <<"reasoning">>

\* C14 witness: the fallback put a message naming a breakdown under
\* falha_mecanica and the turn asked for clarification.
C14_Witness ==
    /\ pc = "done"
    /\ FellBack
    /\ message = "Trator QUEBROU"
    /\ context.fieldsense_data.categoria = "falha_mecanica"
    /\ response.flow_state = FlowState.NEEDS_CLARIFICATION

\* AgroBrain's result is one of its fixed failure modes, not a validated
\* reasoning output.
KnowledgeFailureMode ==
    /\ Resolved
    /\ context.agrobrain_data.method \in {"insufficient_info", "fallback", "error"}

\* C15: AgroBrain never reports stage failure; when retrieval returns nothing,
\* the reasoning output fails validation or the reasoning call raises, its
\* result has procedimento_conhecido = false, nivel_complexidade = alto and
\* requer_especialista = true; and a turn resolved that way returns flow_state
\* = human_escalation with success = true, not an error response.
C15_KnowledgeFailureEscalates ==
    /\ \A search \in SearchOutcomes, llm \in AgroBrainLLMOutcomes :
           (search = "no_results" \/ llm.kind # "valid") =>
               LET result == AgroBrain_process_internal(search, llm)
               IN  /\ ~result.procedimento_conhecido
                   /\ result.nivel_complexidade = "alto"
                   /\ result.requer_especialista
    /\ \A i \in DOMAIN agent_responses :
           agent_responses[i].agent_name = "AgroBrain" => agent_responses[i].success
    /\ (KnowledgeFailureMode /\ pc = "done") =>
           /\ response.success
           /\ response.flow_state = FlowState.HUMAN_ESCALATION

\* Retrieval gave no snippet: the search found nothing, or the search failed
\* (or had no client) and the plugin returned its fallback knowledge text.
NoSnippets == {"no_results", "fallback_knowledge"}

\* C16: whenever retrieval returned no snippet or failed, AgroBrain returns the
\* fixed insufficient-information result and calls retrieval only, never the
\* reasoning service; and in every turn whose AgroBrain stage called the
\* reasoning service, retrieval had returned snippets.
C16_ReasoningOnlyAfterSnippets ==
    /\ \A search \in NoSnippets, llm \in AgroBrainLLMOutcomes :
           /\ AgroBrain_process_internal(search, llm) = build_insufficient_info_response
           /\ AgroBrain_calls(search) = <<"retrieval">>
    /\ \A search \in SearchOutcomes :
           (\E i \in DOMAIN AgroBrain_calls(search) :
                AgroBrain_calls(search)[i] = "reasoning") => search = "snippets"
    /\ (Resolved /\ context.agrobrain_data.method # "insufficient_info") =>
           \E i \in DOMAIN calls : calls[i] = "retrieval"

\* RunbookMaster decided against automation and created a work order.
WorkOrderCreated ==
    /\ Decided
    /\ context.runbook_data.action = "create_os"

\* C17: whenever RunbookMaster created a work order, whatever the ticketing
\* call answered, the work order carries a business id, and the turn returns
\* success = true with that work order.
C17_WorkOrderAlwaysHasId ==
    WorkOrderCreated =>
        /\ context.runbook_data.work_order # Null
        /\ context.runbook_data.work_order.order_id # None
        /\ pc = "done" =>
               /\ response.success
               /\ response.work_order # Null
               /\ response.work_order.order_id # None

\* C18: the work order of every response has its category equal to the
\* CATEGORY_MAPPING image of the classification's category, its assigned
\* specialist equal to the specialist table's answer for that category and its
\* priority equal to the priority table's answer for the severity.
C18_WorkOrderFollowsTables ==
    (Returned /\ response.work_order # Null) =>
        /\ response.work_order.category =
               map_category_to_schema(context.fieldsense_data.categoria)
        /\ response.work_order.category \in {CATEGORY_MAPPING[c] : c \in Categories}
        /\ response.work_order.assigned_specialist =
               get_specialist_for_category(context.fieldsense_data.categoria)
        /\ response.work_order.priority =
               get_priority_for_severity(context.fieldsense_data.severidade)

\* The agent names of a log, in order.
AgentNames(ars) == [i \in DOMAIN ars |-> ars[i].agent_name]

\* C19: the log of the turn, and the agent_responses of every response
\* returned, name exactly the stages invoked during the turn, once each
\* invocation and in invocation order, failed stages included.
C19_LogNamesEveryInvocation ==
    /\ AgentNames(agent_responses) = invocations
    /\ Returned => AgentNames(response.agent_responses) = invocations

\* C19 witness: a completed turn of five stages whose second stage, FarmOps,
\* failed and is in the log.
C19_Witness ==
    /\ pc = "done"
    /\ response.success
    /\ invocations = <<"FieldSense", "FarmOps", "AgroBrain", "RunbookMaster", "ExplainIt">>
    /\ ~response.agent_responses[2].success
    /\ response.agent_responses[2].agent_name = "FarmOps"

\* The fixed order of the stages in process (lines 84, 185, 193, 254, 330).
StageOrder == <<"FieldSense", "FarmOps", "AgroBrain", "RunbookMaster", "ExplainIt">>

Rank(agent_name) == CHOOSE r \in DOMAIN StageOrder : StageOrder[r] = agent_name

\* C20: the stages invoked in a turn follow the fixed order, each at most
\* once; a stage is invoked only when every stage invoked before it has
\* returned its log entry; and a stage earlier in the order than an invoked
\* one was not invoked only if it is RunbookMaster, the invoked one is
\* ExplainIt, and the procedure is unknown.
C20_StagesInFixedOrder ==
    /\ \A i, j \in DOMAIN invocations :
           i < j => Rank(invocations[i]) < Rank(invocations[j])
    /\ Len(agent_responses) = Len(invocations)
    /\ \A j \in DOMAIN invocations : \A r \in DOMAIN StageOrder :
           (r < Rank(invocations[j])
            /\ ~\E i \in 1..j : invocations[i] = StageOrder[r]) =>
               /\ StageOrder[r] = "RunbookMaster"
               /\ invocations[j] = "ExplainIt"
               /\ Resolved
               /\ ~context.agrobrain_data.procedimento_conhecido

\* C20 witness: a turn that went from AgroBrain straight to ExplainIt.
C20_Witness ==
    /\ pc = "done"
    /\ invocations = <<"FieldSense", "FarmOps", "AgroBrain", "ExplainIt">>
    /\ response.flow_state = FlowState.HUMAN_ESCALATION
    /\ response.success

\* C22: every classification with the category cumprimento has confidence
\* 1.0, and the decision recorded for the greeting carries confidence 1.0.
C22_GreetingConfidenceIsOne ==
    (Classified /\ context.fieldsense_data.categoria = "cumprimento") =>
        /\ context.fieldsense_data.confianca = 100
        /\ Len(decisions) = 1
        /\ decisions[1].confidence = 100

\* The transitions of the flow state machine as documented.
DocumentedTransitions ==
    {<<FlowState.INTENTION_CHECK, FlowState.NEEDS_CLARIFICATION>>,
     <<FlowState.INTENTION_CHECK, FlowState.GATHERING_CONTEXT>>,
     <<FlowState.GATHERING_CONTEXT, FlowState.KNOWLEDGE_CHECK>>,
     <<FlowState.KNOWLEDGE_CHECK, FlowState.HUMAN_ESCALATION>>,
     <<FlowState.KNOWLEDGE_CHECK, FlowState.AUTOMATION_CHECK>>,
     <<FlowState.AUTOMATION_CHECK, FlowState.RUNBOOK_EXECUTION>>,
     <<FlowState.AUTOMATION_CHECK, FlowState.WORK_ORDER_CREATED>>,
     <<FlowState.RUNBOOK_EXECUTION, FlowState.EXECUTION_SUCCESS>>,
     <<FlowState.RUNBOOK_EXECUTION, FlowState.EXECUTION_FAILED>>,
     <<FlowState.EXECUTION_SUCCESS, FlowState.COMPLETED>>,
     <<FlowState.EXECUTION_FAILED, FlowState.COMPLETED>>,
     <<FlowState.WORK_ORDER_CREATED, FlowState.COMPLETED>>}

TerminalStates ==
    {FlowState.NEEDS_CLARIFICATION, FlowState.HUMAN_ESCALATION,
     FlowState.EXECUTION_SUCCESS, FlowState.EXECUTION_FAILED,
     FlowState.WORK_ORDER_CREATED, FlowState.COMPLETED}

\* The state the flow stood in before decision i was recorded.
StateBefore(decs, i) ==
    IF i = 1 THEN FlowState.INTENTION_CHECK ELSE decs[i - 1].next_state

\* C23: the next_state values recorded in decisions, started from
\* intention_check, follow only documented transitions, and the flow_state of
\* every response is a terminal state.
C23_DecisionsFollowStateMachine ==
    /\ \A i \in DOMAIN decisions :
           <<StateBefore(decisions, i), decisions[i].next_state>>
               \in DocumentedTransitions
    /\ Returned => response.flow_state \in TerminalStates

\* RunbookMaster permitted automation and triggered a runbook.
RunbookRun ==
    /\ Decided
    /\ Called("automation")

\* C24: whenever a runbook was run, decisions holds a can_automate node
\* followed by an execution node, execution_success exactly when the run
\* succeeded, and the RunbookExecution, failed or not, is in the result.
C24_RunOutcomeRecorded ==
    RunbookRun =>
        /\ context.runbook_data.runbook_execution # Null
        /\ \E i \in DOMAIN decisions :
               /\ decisions[i].decision_type = DecisionType.CAN_AUTOMATE
               /\ i + 1 \in DOMAIN decisions
               /\ decisions[i + 1].decision_type =
                      IF context.runbook_data.runbook_execution.success
                      THEN DecisionType.EXECUTION_SUCCESS
                      ELSE DecisionType.EXECUTION_FAILED

\* C29: for every classification the policy automates, and in every turn that
\* ran a runbook, the runbook selected has pode_automatizar = True and
\* requer_aprovacao = False.
C29_OnlyAutomatableRunbooksRun ==
    /\ \A cat \in LLMCategories, sev \in Severities, ent \in EntitySamples :
           _can_automate(cat, sev, "baixo", FALSE) =>
               LET runbook == get_runbook_definition(
                                  select_runbook(cat, [entidades |-> ent]))
               IN  runbook.pode_automatizar /\ ~runbook.requer_aprovacao
    /\ RunbookRun =>
           LET runbook == get_runbook_definition(
                              select_runbook(context.fieldsense_data.categoria,
                                             context.fieldsense_data))
           IN  runbook.pode_automatizar /\ ~runbook.requer_aprovacao

\* How many times a collaborator was called in the turn.
CallCount(collaborator) == Cardinality({i \in DOMAIN calls : calls[i] = collaborator})

\* C30: in every turn the ticketing service is called at most once and a
\* runbook is triggered at most once, never both, and no stage is invoked a
\* second time.
C30_NothingRetried ==
    /\ CallCount("ticketing") <= 1
    /\ CallCount("automation") <= 1
    /\ CallCount("ticketing") + CallCount("automation") <= 1
    /\ \A i, j \in DOMAIN invocations :
           invocations[i] = invocations[j] => i = j

\* C30 witness: the ticketing call gave no id, the work order took a local id,
\* and the turn completed after that single call.
C30_Witness ==
    /\ pc = "done"
    /\ response.success
    /\ response.work_order # Null
    /\ response.work_order.order_id = "OS-LOCAL"
    /\ CallCount("ticketing") = 1

-----------------------------------------------------------------------------
(* functions/function-workorders: the create validation of the work-order
   function, as far as category and priority go. *)

WorkOrderPriority == {"low", "medium", "high", "critical"}

WorkOrderCategory ==
    {"machinery", "irrigation", "planting", "harvesting", "inputs", "soil",
     "pest", "other"}

\* validate_work_order_data: the errors it reports for category and priority.
validate_work_order_data(data) ==
    (IF data.category \notin WorkOrderCategory
     THEN {"Invalid category"} ELSE {})
    \cup
    (IF data.priority # None /\ data.priority \notin WorkOrderPriority
     THEN {"Invalid priority"} ELSE {})

\* C28: every category in the range of the category mapping and every
\* priority in the range of the severity-to-priority function, default
\* included, passes the create validation of the work-order function, in
\* general and for the values of every turn that called the ticketing service.
C28_TicketValuesAccepted ==
    /\ \A cat \in LLMCategories, sev \in Severities :
           validate_work_order_data(
               [category |-> map_category_to_schema(cat),
                priority |-> get_priority_for_severity(sev)]) = {}
    /\ (Called("ticketing") /\ context.fieldsense_data # Null) =>
           validate_work_order_data(
               [category |->
                    map_category_to_schema(context.fieldsense_data.categoria),
                priority |->
                    get_priority_for_severity(context.fieldsense_data.severidade)])
               = {}

-----------------------------------------------------------------------------
(* Properties of the requests and the session store *)

\* The requests of send_message on a session that passed the session check.
TurnsOn(session_id) ==
    {t \in TurnIds : /\ turns[t].kind = "send_message"
                     /\ turns[t].session_id = session_id
                     /\ turns[t].pc # "http_404"}

\* The log of a session, empty for a session that does not exist.
Log(session_id) ==
    IF get_session(_SESSIONS, session_id) = Null
    THEN <<>> ELSE _SESSIONS[session_id].messages

\* The request has begun process.
Began(t) == turns[t].pc \in {"field_sense", "pipeline", "done", "returned"}

\* A call of process without a session id.
Sessionless(t) ==
    /\ turns[t].kind = "process"
    /\ turns[t].session_id = None

\* C21: a call of process without a session id is seeded with nothing, gives
\* FarmOps no session data and, at every step it takes, leaves the session
\* store as it was, whatever other calls and turns did.
C21_SessionlessCallsIndependent ==
    /\ [](\A t \in TurnIds :
              Sessionless(t) =>
                  /\ turns[t].seed = Null
                  /\ turns[t].history_seen = 0
                  /\ ~turns[t].farmops_session)
    /\ [][\A t \in TurnIds :
              (Sessionless(t)' /\ turns'[t] # turns[t]) =>
                  _SESSIONS' = _SESSIONS]_vars

\* C21 witness: a session holds a stored classification, and two calls of
\* process with the same message and no session id returned different
\* results.
C21_Witness ==
    /\ \E t \in TurnIds :
           /\ turns[t].kind = "send_message"
           /\ turns[t].pc = "done"
           /\ DictTruthy(turns[t].fieldsense_data)
    /\ \E t, u \in TurnIds :
           /\ Sessionless(t) /\ Sessionless(u)
           /\ turns[t].pc = "returned" /\ turns[u].pc = "returned"
           /\ turns[t].message = turns[u].message
           /\ turns[t].flow_state # turns[u].flow_state

\* The turns of the session were processed one at a time up to turn t: every
\* earlier turn has ended, the reply of each that completed sits right after
\* its user message, and the history turn t scanned ends with its own user
\* message.
OneAtATime(t) ==
    LET Earlier(v) == {u \in TurnsOn(turns[t].session_id) : u < v}
        Position(v) ==
            1 + Cardinality(Earlier(v))
              + Cardinality({u \in Earlier(v) : turns[u].pc = "done"})
    IN  /\ \A u \in Earlier(t) :
               /\ turns[u].pc \in {"done", "http_500"}
               /\ turns[u].pc = "done" => turns[u].replied_at = Position(u) + 1
        /\ turns[t].history_seen = Position(t)

\* The classification stored by the most recent earlier turn on the session
\* whose classifier succeeded, Null when there is none.
LastClassificationBefore(t) ==
    LET stored == {u \in TurnsOn(turns[t].session_id) :
                      /\ u < t
                      /\ turns[u].pc = "done"
                      /\ DictTruthy(turns[u].fieldsense_data)}
    IN  IF stored = {}
        THEN Null
        ELSE turns[CHOOSE u \in stored : \A v \in stored : v <= u].fieldsense_data

\* C25: a turn of send_message processed one at a time is seeded with the
\* classification stored by the most recent earlier turn whose classifier
\* succeeded, with nothing when there is none; a call of process for a session
\* that does not exist is seeded with nothing and goes on to the classifier.
C25_SeededFromLastClassification ==
    /\ \A t \in TurnIds :
           (turns[t].kind = "send_message" /\ Began(t) /\ OneAtATime(t)) =>
               turns[t].seed = LastClassificationBefore(t)
    /\ \A t \in TurnIds :
           (/\ turns[t].kind = "process"
            /\ turns[t].session_id # None
            /\ get_session(_SESSIONS, turns[t].session_id) = Null) =>
               /\ turns[t].seed = Null
               /\ Began(t)

\* C25 witness: the third turn of a session ran after a turn whose classifier
\* failed and, before that, a turn whose classifier succeeded, and was seeded
\* with the classification of the first.
C25_Witness ==
    /\ TurnsOn("session-a") = {1, 2, 3}
    /\ turns[1].pc = "done" /\ DictTruthy(turns[1].fieldsense_data)
    /\ turns[2].pc = "done" /\ turns[2].fieldsense_data = Null
    /\ Began(3) /\ OneAtATime(3)
    /\ turns[3].seed = turns[1].fieldsense_data

\* The newest truthy fieldsense_data among the first n records of a log.
NewestClassification(messages, n) ==
    LET holding == {i \in 1..n :
                       DictTruthy(Get(messages[i].extra, "fieldsense_data", Null))}
    IN  IF holding = {}
        THEN Null
        ELSE messages[CHOOSE i \in holding : \A j \in holding : j <= i]
                 .extra.fieldsense_data

\* Turn t, appended after turn u on the same session, began process on a
\* history without the bot reply that carries u's classification.
StaleRead(t, u) ==
    /\ u < t
    /\ u \in TurnsOn(turns[t].session_id)
    /\ t \in TurnsOn(turns[t].session_id)
    /\ Began(t)
    /\ turns[u].pc = "done"
    /\ DictTruthy(turns[u].fieldsense_data)
    /\ turns[u].replied_at > turns[t].history_seen

\* The log alternates user message and bot reply.
Alternates(messages) ==
    \A i \in DOMAIN messages :
        messages[i].role = IF i % 2 = 1 THEN "user" ELSE "bot"

\* C26: every seed is the newest classification of the history the turn
\* scanned, the log only growing at its end, so a turn reads stale history
\* exactly by scanning before the earlier turn's reply is stored, and the log
\* of a session where that happened does not alternate.
C26_StaleReadBreaksAlternation ==
    \A t \in TurnIds :
        (Began(t) /\ get_session(_SESSIONS, turns[t].session_id) # Null) =>
            /\ turns[t].history_seen <= Len(Log(turns[t].session_id))
            /\ turns[t].seed =
                   NewestClassification(Log(turns[t].session_id),
                                        turns[t].history_seen)
            /\ \A u \in TurnIds :
                   StaleRead(t, u) => ~Alternates(Log(turns[t].session_id))

\* C26 witness: two turns in flight on one session, the second seeded with
\* nothing although the first stored a classification, the log being user,
\* user, bot.
C26_Witness ==
    \E t, u \in TurnIds :
        /\ StaleRead(t, u)
        /\ turns[t].seed = Null
        /\ turns[t].seed # LastClassificationBefore(t)
        /\ ~Alternates(Log(turns[t].session_id))

\* The positions of a session's log that hold a record of the role.
Records(session_id, role) ==
    {i \in DOMAIN Log(session_id) : Log(session_id)[i].role = role}

\* No request of send_message is between its session check and its end.
Quiescent ==
    \A t \in TurnIds :
        turns[t].kind = "send_message" =>
            turns[t].pc \in {"http_404", "http_500", "done"}

\* The turns of a session that completed.
Completed(session_id) == {t \in TurnsOn(session_id) : turns[t].pc = "done"}

\* C27 as stated: once the turns in flight have ended, a session's log holds
\* as many user records and as many bot records as turns completed on it.
C27_RecordsPerCompletedTurn ==
    Quiescent =>
        \A session_id \in SessionIds :
            /\ Cardinality(Records(session_id, "user")) =
                   Cardinality(Completed(session_id))
            /\ Cardinality(Records(session_id, "bot")) =
                   Cardinality(Completed(session_id))

\* C27, amended: at every moment and under every interleaving, a session's
\* log holds one user record for each turn that passed the session check, the
\* turns whose ACS send failed included, and one bot record for each turn
\* that completed; for each flow state, as many bot records carry it as
\* completed turns returned it; a session without turns has an empty log.
C27_RecordsPerTurn ==
    \A session_id \in SessionIds :
        /\ Records(session_id, "user") \cup Records(session_id, "bot") =
               DOMAIN Log(session_id)
        /\ Cardinality(Records(session_id, "user")) =
               Cardinality(TurnsOn(session_id))
        /\ Cardinality(Records(session_id, "bot")) =
               Cardinality(Completed(session_id))
        /\ \A flow_state \in {FlowState[k] : k \in DOMAIN FlowState} :
               Cardinality({i \in Records(session_id, "bot") :
                               Log(session_id)[i].extra.flow_state = flow_state}) =
                   Cardinality({t \in Completed(session_id) :
                                   turns[t].flow_state = flow_state})

\* C27 witness: two turns on one session interleaved and completed with
\* different flow states, and a turn on the other session ended by a failed
\* ACS send, its user record alone in that log.
C27_Witness ==
    /\ Completed("session-a") = {1, 2}
    /\ turns[1].flow_state # turns[2].flow_state
    /\ turns[1].replied_at > 2
    /\ turns[2].replied_at > 2
    /\ TurnsOn("session-b") = {3}
    /\ turns[3].pc = "http_500"
    /\ Len(Log("session-b")) = 1

====
